---------------------------- MODULE Spec2Model ----------------------------
(***************************************************************************)
(* Amdahl's Law performance analyzer: the scalar formulas and the bulk     *)
(* simulate_scaling of amdahl.py, and the command-line run of cli.py.      *)
(*                                                                         *)
(* Python floats are IEEE-754 binary64.  They are modelled bit for bit:    *)
(* a 53-bit significand, round-to-nearest-even after every operation.      *)
(* TLC's integers are 32 bits wide, so a significand is kept in two limbs  *)
(* of 28 bits.  The exponent range is not bounded (no operation of the     *)
(* program on the inputs considered here overflows or underflows).         *)
(***************************************************************************)
EXTENDS Integers, Sequences, FiniteSets

(***************************************************************************)
(* Wide naturals: hi * 2^28 + lo.                                          *)
(***************************************************************************)
W == 2^28

WNat(n) == [hi |-> n \div W, lo |-> n % W]

WZero == [hi |-> 0, lo |-> 0]

WOne == [hi |-> 0, lo |-> 1]

WAdd(a, b) ==
    LET s == a.lo + b.lo
    IN  [hi |-> a.hi + b.hi + (s \div W), lo |-> s % W]

\* a - b, for a >= b
WSub(a, b) ==
    IF a.lo >= b.lo
    THEN [hi |-> a.hi - b.hi, lo |-> a.lo - b.lo]
    ELSE [hi |-> a.hi - b.hi - 1, lo |-> a.lo + W - b.lo]

WLt(a, b) == a.hi < b.hi \/ (a.hi = b.hi /\ a.lo < b.lo)

WOdd(a) == a.lo % 2 = 1

\* floor(a / 2^d)
WShr(a, d) ==
    IF d = 0 THEN a
    ELSE IF d >= 28
    THEN IF d - 28 >= 31 THEN WZero
         ELSE [hi |-> 0, lo |-> a.hi \div 2^(d - 28)]
    ELSE [hi |-> a.hi \div 2^d,
          lo |-> (a.lo \div 2^d) + (a.hi % 2^d) * 2^(28 - d)]

\* a mod 2^d
WLow(a, d) ==
    IF d = 0 THEN WZero
    ELSE IF d >= 28
    THEN IF d - 28 >= 31 THEN a
         ELSE [hi |-> a.hi % 2^(d - 28), lo |-> a.lo]
    ELSE [hi |-> 0, lo |-> a.lo % 2^d]

RECURSIVE WShl(_, _)
\* a * 2^d, for a result below 2^59
WShl(a, d) ==
    IF d = 0 THEN a
    ELSE IF d >= 28 THEN WShl([hi |-> a.lo, lo |-> 0], d - 28)
    ELSE [hi |-> a.hi * 2^d + (a.lo \div 2^(28 - d)),
          lo |-> (a.lo % 2^(28 - d)) * 2^d]

RECURSIVE ILen(_)
ILen(n) == IF n = 0 THEN 0 ELSE 1 + ILen(n \div 2)

\* number of significant bits
WLen(a) == IF a.hi > 0 THEN 28 + ILen(a.hi) ELSE ILen(a.lo)

(***************************************************************************)
(* binary64 values: (-1)^neg * m * 2^e, m = 0 or m of exactly Prec bits.   *)
(***************************************************************************)
Prec == 53

Guard == 3

FZero == [neg |-> FALSE, m |-> WZero, e |-> 0]

FIsZero(x) == x.m = WZero

\* The float nearest to M * 2^E (plus, when sticky, a positive amount below
\* one unit of M), ties to even.  With sticky, M has at least Prec + 2 bits.
RoundPack(M, E, sticky) ==
    LET n == WLen(M)
    IN  IF M = WZero THEN FZero
        ELSE IF n <= Prec
        THEN [neg |-> FALSE, m |-> WShl(M, Prec - n), e |-> E - (Prec - n)]
        ELSE LET sh   == n - Prec
                 q    == WShr(M, sh)
                 r    == WLow(M, sh)
                 half == WShl(WOne, sh - 1)
                 up   == WLt(half, r) \/ (r = half /\ (sticky \/ WOdd(q)))
                 q2   == IF up THEN WAdd(q, WOne) ELSE q
             IN  IF WLen(q2) > Prec
                 THEN [neg |-> FALSE, m |-> WShr(q2, 1), e |-> E + sh + 1]
                 ELSE [neg |-> FALSE, m |-> q2, e |-> E + sh]

\* int -> float, n >= 0
FromInt(n) == RoundPack(WNat(n), 0, FALSE)

FOne == FromInt(1)

FNeg(x) == IF FIsZero(x) THEN x ELSE [x EXCEPT !.neg = ~x.neg]

\* |a| < |b|
MagLt(a, b) ==
    IF FIsZero(b) THEN FALSE
    ELSE IF FIsZero(a) THEN TRUE
    ELSE a.e < b.e \/ (a.e = b.e /\ WLt(a.m, b.m))

\* a < b
FLt(a, b) ==
    IF a.neg /\ b.neg THEN MagLt(b, a)
    ELSE IF a.neg THEN TRUE
    ELSE IF b.neg THEN FALSE
    ELSE MagLt(a, b)

FLe(a, b) == ~FLt(b, a)

\* a + b, for a, b >= 0
FAdd(a, b) ==
    IF FIsZero(a) THEN b
    ELSE IF FIsZero(b) THEN a
    ELSE LET big   == IF a.e >= b.e THEN a ELSE b
             small == IF a.e >= b.e THEN b ELSE a
             d     == big.e - small.e
             A     == WShl(big.m, Guard)
             B0    == WShl(small.m, Guard)
             gone  == d >= Prec + Guard
             B     == IF gone THEN WZero ELSE WShr(B0, d)
             st    == IF gone THEN TRUE ELSE WLow(B0, d) # WZero
         IN  RoundPack(WAdd(A, B), big.e - Guard, st)

\* a - b, for a >= b >= 0
FSub(a, b) ==
    IF FIsZero(b) THEN a
    ELSE LET d    == a.e - b.e
             A    == WShl(a.m, Guard)
             B0   == WShl(b.m, Guard)
             gone == d >= Prec + Guard
             B    == IF gone THEN WZero ELSE WShr(B0, d)
             st   == IF gone THEN TRUE ELSE WLow(B0, d) # WZero
             D    == IF st THEN WSub(WSub(A, B), WOne) ELSE WSub(A, B)
         IN  RoundPack(D, a.e - Guard, st)

\* one more quotient bit of s.rem / b
DivStep(s, b) ==
    LET r2 == WAdd(s.rem, s.rem)
        q2 == WAdd(s.q, s.q)
    IN  IF WLt(r2, b)
        THEN [q |-> q2, rem |-> r2]
        ELSE [q |-> WAdd(q2, WOne), rem |-> WSub(r2, b)]

RECURSIVE LongDiv(_, _, _)
\* k more quotient bits of s.rem / b, s.rem < b
LongDiv(s, b, k) ==
    IF k = 0 THEN s
    ELSE IF s.rem = WZero THEN [q |-> WShl(s.q, k), rem |-> WZero]
    ELSE LongDiv(DivStep(s, b), b, k - 1)

\* a / b, for a >= 0, b > 0
FDiv(a, b) ==
    IF FIsZero(a) THEN FZero
    ELSE LET ge == ~WLt(a.m, b.m)
             s0 == IF ge THEN [q |-> WOne, rem |-> WSub(a.m, b.m)]
                         ELSE [q |-> WZero, rem |-> a.m]
             d  == LongDiv(s0, b.m, Prec + 2)
         IN  RoundPack(d.q, a.e - b.e - (Prec + 2), d.rem # WZero)

(***************************************************************************)
(* Python values.  Every value has the same shape, so that values of       *)
(* different types can be compared: fl is meaningful for a float, n for    *)
(* an int.                                                                 *)
(***************************************************************************)
PyFloat(x) == [type |-> "float", fl |-> x, n |-> 0]

PyInt(k) == [type |-> "int", fl |-> FZero, n |-> k]

PyNone == [type |-> "NoneType", fl |-> FZero, n |-> 0]

PyStr == [type |-> "str", fl |-> FZero, n |-> 0]

PyBool(b) == [type |-> "bool", fl |-> FZero, n |-> IF b THEN 1 ELSE 0]

\* a key a mapping does not have
Absent == [type |-> "absent", fl |-> FZero, n |-> 0]

\* isinstance(v, int): bool is a subclass of int
IsInt(v) == v.type \in {"int", "bool"}

\* isinstance(v, (int, float))
IsNumber(v) == v.type \in {"int", "bool", "float"}

\* bool(v)
Truthy(v) ==
    IF IsInt(v) THEN v.n # 0
    ELSE IF v.type = "float" THEN v.fl.m # [hi |-> 0, lo |-> 0]
    ELSE v.type = "str"

\* the float an int or float operand is converted to (exact for |n| < 2^53)
ToFloat(v) ==
    IF IsInt(v)
    THEN IF v.n < 0 THEN FNeg(FromInt(-v.n)) ELSE FromInt(v.n)
    ELSE v.fl

\* a decimal literal num/den, read as the nearest float
Dec(num, den) == FDiv(FromInt(num), FromInt(den))

\* 0 <= v <= 1
InUnit(v) == FLe(FZero, ToFloat(v)) /\ FLe(ToFloat(v), FOne)

\* v < 1
BelowOneProc(v) == FLt(ToFloat(v), FOne)

\* v == 1
IsOne(v) == ToFloat(v) = FOne

(***************************************************************************)
(* Outcomes of a call: a returned float or a raised exception.             *)
(***************************************************************************)
Return(x) == [kind |-> "return", val |-> x, exc |-> "none"]

Raise(e) == [kind |-> "raise", val |-> FZero, exc |-> e]

NoOutcome == [kind |-> "none", val |-> FZero, exc |-> "none"]

\* a / b in Python: ZeroDivisionError on a zero divisor
PyDiv(a, b) == IF FIsZero(b) THEN Raise("ZeroDivisionError") ELSE Return(FDiv(a, b))

(***************************************************************************)
(* amdahl.py: the scalar operations.                                       *)
(***************************************************************************)
\* counts the processors from 0: f + (1 - f) / (p + 1)
DenominatorOffByOne(fv, pv) ==
    FAdd(ToFloat(fv), FDiv(FSub(FOne, ToFloat(fv)), FromInt(pv.n + 1)))

\* denominator = f + (1 - f) / p
Denominator(fv, pv) ==
    FAdd(ToFloat(fv), FDiv(FSub(FOne, ToFloat(fv)), ToFloat(pv)))

\* forgets the parentheses: 1.0 / f + (1 - f) / p
calculate_speedup_noparens(fv, pv) ==
    IF ~InUnit(fv) THEN Raise("ValueError")
    ELSE IF BelowOneProc(pv) THEN Raise("ValueError")
    ELSE IF IsOne(fv) THEN Return(FOne)
    ELSE LET inv == PyDiv(FOne, ToFloat(fv))
         IN  IF inv.kind = "raise" THEN inv
             ELSE Return(FAdd(inv.val, FDiv(FSub(FOne, ToFloat(fv)), ToFloat(pv))))

\* forgets to divide the parallel part by p: 1.0 / (f + (1 - f))
calculate_speedup_nodiv(fv, pv) ==
    IF ~InUnit(fv) THEN Raise("ValueError")
    ELSE IF BelowOneProc(pv) THEN Raise("ValueError")
    ELSE IF IsOne(fv) THEN Return(FOne)
    ELSE PyDiv(FOne, FAdd(ToFloat(fv), FSub(FOne, ToFloat(fv))))

\* forgets the reciprocal: returns the denominator
calculate_speedup_noinv(fv, pv) ==
    IF ~InUnit(fv) THEN Raise("ValueError")
    ELSE IF BelowOneProc(pv) THEN Raise("ValueError")
    ELSE IF IsOne(fv) THEN Return(FOne)
    ELSE Return(Denominator(fv, pv))

\* rejects p < 0 only: p = 0 reaches the division
calculate_speedup_pzero(fv, pv) ==
    IF ~InUnit(fv) THEN Raise("ValueError")
    ELSE IF FLt(ToFloat(pv), FZero) THEN Raise("ValueError")
    ELSE IF IsOne(fv) THEN Return(FOne)
    ELSE LET par == PyDiv(FSub(FOne, ToFloat(fv)), ToFloat(pv))
         IN  IF par.kind = "raise" THEN par
             ELSE PyDiv(FOne, FAdd(ToFloat(fv), par.val))

\* divides the parallel part among the p - 1 added processors
calculate_speedup_added_procs(fv, pv) ==
    IF ~InUnit(fv) THEN Raise("ValueError")
    ELSE IF BelowOneProc(pv) THEN Raise("ValueError")
    ELSE IF IsOne(fv) THEN Return(FOne)
    ELSE LET par == PyDiv(FSub(FOne, ToFloat(fv)), FSub(ToFloat(pv), FOne))
         IN  IF par.kind = "raise" THEN par
             ELSE PyDiv(FOne, FAdd(ToFloat(fv), par.val))

calculate_speedup(fv, pv) ==
    IF ~InUnit(fv) THEN Raise("ValueError")
    ELSE IF BelowOneProc(pv) THEN Raise("ValueError")
    ELSE IF IsOne(fv) THEN Return(FOne)
    ELSE LET par == PyDiv(FSub(FOne, ToFloat(fv)), ToFloat(pv))
         IN  IF par.kind = "raise" THEN par
             ELSE PyDiv(FOne, FAdd(ToFloat(fv), par.val))

\* forgets to divide by p
calculate_efficiency_nodiv(fv, pv) == calculate_speedup(fv, pv)

calculate_efficiency(fv, pv) ==
    LET speedup == calculate_speedup(fv, pv)
    IN  IF speedup.kind = "raise" THEN speedup
        ELSE PyDiv(speedup.val, ToFloat(pv))

\* forgets the reciprocal: returns the speedup
calculate_execution_time_ratio_noinv(fv, pv) == calculate_speedup(fv, pv)

calculate_execution_time_ratio(fv, pv) ==
    LET speedup == calculate_speedup(fv, pv)
    IN  IF speedup.kind = "raise" THEN speedup
        ELSE PyDiv(FOne, speedup.val)

\* f"{x:.6f}", round(x, d): x to d decimal places, as the integer x * 10^d
\* rounded half-to-even on the exact binary value; for 1/8 <= x < 2^27
RECURSIVE Digits(_, _, _, _)
Digits(acc, frac, k, d) ==
    IF d = 0
    THEN LET half == WShl(WOne, k - 1)
         IN  IF WLt(half, frac) \/ (frac = half /\ acc % 2 = 1)
             THEN acc + 1 ELSE acc
    ELSE LET f10 == WAdd(WShl(frac, 3), WShl(frac, 1))
         IN  Digits(acc * 10 + WShr(f10, k).lo, WLow(f10, k), k, d - 1)

RoundDec(x, d) == Digits(WShr(x.m, -x.e).lo, WLow(x.m, -x.e), -x.e, d)

(***************************************************************************)
(* Bounds of the library inputs.                                           *)
(***************************************************************************)
MaxP == 50

MaxProcs == 6

\* the max_procs of the documented scenario and the CLI's built-in default
DefaultMaxProcs == 100

\* 0.9999999999999999 = 1 - 2^-53, the largest float below 1
BelowOne == [neg |-> FALSE, m |-> [hi |-> 2^25 - 1, lo |-> W - 1], e |-> -Prec]

\* 1 + 2^-52, the smallest float above 1
AboveOne == [neg |-> FALSE, m |-> [hi |-> 2^24, lo |-> 1], e |-> -(Prec - 1)]

\* 2^-60
Tiny == [neg |-> FALSE, m |-> [hi |-> 2^24, lo |-> 0], e |-> -112]

ValidFractions ==
    {PyFloat(FZero), PyFloat(FOne), PyInt(0), PyInt(1),
     PyFloat(Dec(1, 20)), PyFloat(Dec(1, 10)), PyFloat(Dec(1, 5)),
     PyFloat(Dec(3, 10)), PyFloat(Dec(1, 2)), PyFloat(Dec(19, 20)),
     PyFloat(BelowOne), PyFloat(Tiny)}

InvalidFractions ==
    {PyFloat(FNeg(Dec(1, 10))), PyFloat(Dec(11, 10)), PyFloat(Dec(3, 2)),
     PyFloat(AboveOne), PyFloat(FNeg(Tiny)), PyInt(2), PyInt(-1)}

FractionInputs == ValidFractions \cup InvalidFractions

ScalarCalls ==
    {"calculate_speedup", "calculate_efficiency", "calculate_execution_time_ratio"}

\* the inputs of the library calls: (call, f, p)
CallInputs ==
    (ScalarCalls \X FractionInputs \X {PyInt(k) : k \in -1..MaxP})
    \cup ({"simulate_scaling"} \X FractionInputs \X {PyInt(k) : k \in -1..MaxProcs})
    \cup {<<"simulate_scaling", PyFloat(Dec(1, 20)), PyInt(DefaultMaxProcs)>>}

(***************************************************************************)
(* State.                                                                  *)
(***************************************************************************)
VARIABLES
    call,          \* the library function being called, or "none"
    f,             \* its argument f
    p,             \* its argument p (scalar calls) or max_procs (simulate_scaling)
    pc,            \* position in the called function
    ret,           \* the outcome of the call
    processors,    \* simulate_scaling's local arrays
    speedups,
    efficiencies,
    time_ratios,
    results        \* the dictionary simulate_scaling returns

libvars == <<call, f, p, pc, ret, processors, speedups, efficiencies,
             time_ratios, results>>

NoResults ==
    [processors |-> <<>>, speedups |-> <<>>, efficiencies |-> <<>>,
     time_ratios |-> <<>>]

LibInit ==
    /\ \E in \in CallInputs : call = in[1] /\ f = in[2] /\ p = in[3]
    /\ pc = "start"
    /\ ret = NoOutcome
    /\ processors = <<>>
    /\ speedups = <<>>
    /\ efficiencies = <<>>
    /\ time_ratios = <<>>
    /\ results = NoResults

noarrays == <<processors, speedups, efficiencies, time_ratios, results>>

Finish(outcome) ==
    /\ ret' = outcome
    /\ pc' = IF outcome.kind = "raise" THEN "raised" ELSE "returned"

(***************************************************************************)
(* The scalar calls, one step each.                                        *)
(***************************************************************************)
CalcSpeedup ==
    /\ call = "calculate_speedup" /\ pc = "start"
    /\ Finish(calculate_speedup(f, p))
    /\ UNCHANGED <<call, f, p, noarrays>>

CalcEfficiency ==
    /\ call = "calculate_efficiency" /\ pc = "start"
    /\ Finish(calculate_efficiency(f, p))
    /\ UNCHANGED <<call, f, p, noarrays>>

CalcExecutionTimeRatio ==
    /\ call = "calculate_execution_time_ratio" /\ pc = "start"
    /\ Finish(calculate_execution_time_ratio(f, p))
    /\ UNCHANGED <<call, f, p, noarrays>>

(***************************************************************************)
(* simulate_scaling, statement by statement.                               *)
(***************************************************************************)
\* ceil(x) for 0 <= x < 2^27
FCeil(x) ==
    IF FIsZero(x) THEN 0
    ELSE IF -x.e >= Prec + Guard THEN 1
    ELSE WShr(x.m, -x.e).lo + (IF WLow(x.m, -x.e) = WZero THEN 0 ELSE 1)

\* len(np.arange(1, max_procs + 1)): ceil((max_procs + 1) - 1), at least 0
ArangeLen(mp) ==
    IF mp.type = "float"
    THEN FCeil(FSub(FAdd(mp.fl, FOne), FOne))
    ELSE IF mp.n < 0 THEN 0 ELSE mp.n

\* checks f only: an invalid max_procs reaches np.arange
SimValidateFractionOnly ==
    /\ call = "simulate_scaling" /\ pc = "start"
    /\ IF ~InUnit(f)
       THEN Finish(Raise("ValueError"))
       ELSE pc' = "arange" /\ ret' = ret
    /\ UNCHANGED <<call, f, p, noarrays>>

\* the checks before anything is built
SimValidate ==
    /\ call = "simulate_scaling" /\ pc = "start"
    /\ IF ~InUnit(f) \/ BelowOneProc(p)
       THEN Finish(Raise("ValueError"))
       ELSE pc' = "arange" /\ ret' = ret
    /\ UNCHANGED <<call, f, p, noarrays>>

\* processors = np.arange(1, max_procs + 1, dtype=np.int32)
SimArange ==
    /\ call = "simulate_scaling" /\ pc = "arange"
    /\ processors' = [i \in 1..ArangeLen(p) |-> i]
    /\ pc' = "speedups"
    /\ UNCHANGED <<call, f, p, ret, speedups, efficiencies, time_ratios, results>>

\* np.ones(max_procs) when f == 1 (a float max_procs is a TypeError),
\* else 1.0 / (f + (1 - f) / processors.astype(np.float64))
SimSpeedups ==
    /\ call = "simulate_scaling" /\ pc = "speedups"
    /\ IF IsOne(f)
       THEN IF p.type = "float"
            THEN Finish(Raise("TypeError")) /\ speedups' = speedups
            ELSE /\ speedups' = [i \in 1..p.n |-> FOne]
                 /\ pc' = "efficiencies" /\ ret' = ret
       ELSE /\ speedups' = [i \in 1..Len(processors) |->
                               FDiv(FOne, Denominator(f, PyInt(processors[i])))]
            /\ pc' = "efficiencies" /\ ret' = ret
    /\ UNCHANGED <<call, f, p, processors, efficiencies, time_ratios, results>>

\* divides by the scalar max_procs: speedups / max_procs
SimEfficienciesByMaxProcs ==
    /\ call = "simulate_scaling" /\ pc = "efficiencies"
    /\ efficiencies' = [i \in 1..Len(speedups) |-> FDiv(speedups[i], ToFloat(p))]
    /\ pc' = "time_ratios"
    /\ UNCHANGED <<call, f, p, ret, processors, speedups, time_ratios, results>>

\* efficiencies = speedups / processors
SimEfficiencies ==
    /\ call = "simulate_scaling" /\ pc = "efficiencies"
    /\ efficiencies' = [i \in 1..Len(speedups) |->
                           FDiv(speedups[i], FromInt(processors[i]))]
    /\ pc' = "time_ratios"
    /\ UNCHANGED <<call, f, p, ret, processors, speedups, time_ratios, results>>

\* time_ratios = 1.0 / speedups
SimTimeRatios ==
    /\ call = "simulate_scaling" /\ pc = "time_ratios"
    /\ time_ratios' = [i \in 1..Len(speedups) |-> FDiv(FOne, speedups[i])]
    /\ pc' = "return"
    /\ UNCHANGED <<call, f, p, ret, processors, speedups, efficiencies, results>>

\* return {'processors': ..., 'speedups': ..., ...}
SimReturn ==
    /\ call = "simulate_scaling" /\ pc = "return"
    /\ results' = [processors |-> processors, speedups |-> speedups,
                   efficiencies |-> efficiencies, time_ratios |-> time_ratios]
    /\ Finish(Return(FZero))
    /\ UNCHANGED <<call, f, p, processors, speedups, efficiencies, time_ratios>>

SimStep ==
    \/ SimValidate
    \/ SimArange
    \/ SimSpeedups
    \/ SimEfficiencies
    \/ SimTimeRatios
    \/ SimReturn

(***************************************************************************)
(* utils.py: the validators and the configuration loader.                  *)
(***************************************************************************)
Ok == [kind |-> "return", val |-> FZero, exc |-> "none"]

validate_fraction(v) ==
    IF ~IsNumber(v) THEN Raise("ValueError")
    ELSE IF ~InUnit(v) THEN Raise("ValueError")
    ELSE Ok

\* float.is_integer()
FIsInteger(x) ==
    \/ FIsZero(x)
    \/ x.e >= 0
    \/ (-x.e < Prec /\ WLow(x.m, -x.e) = WZero)

\* a whole float is converted for the check only; the caller keeps its value
validate_processors(v) ==
    IF ~IsInt(v) /\ ~(v.type = "float" /\ FIsInteger(v.fl)) THEN Raise("ValueError")
    ELSE IF BelowOneProc(v) THEN Raise("ValueError")
    ELSE Ok

\* a mapping with the three keys the program reads
Mapping(fr, mp, gp) ==
    [kind |-> "dict", fraction |-> fr, max_procs |-> mp, generate_plots |-> gp]

EmptyMapping == Mapping(Absent, Absent, Absent)

LoadReturn(c) == [kind |-> "return", exc |-> "none", config |-> c]

LoadRaise(e) == [kind |-> "raise", exc |-> e, config |-> EmptyMapping]

\* forgets "if config is None: config = {}": an empty file loads as None
load_config_keeps_none(file) ==
    IF file.kind = "missing" THEN LoadRaise("FileNotFoundError")
    ELSE IF file.kind = "malformed" THEN LoadRaise("YAMLError")
    ELSE IF file.kind = "empty"
    THEN LoadReturn([kind |-> "NoneType", fraction |-> Absent,
                     max_procs |-> Absent, generate_plots |-> Absent])
    ELSE LoadReturn([kind |-> file.kind, fraction |-> file.fraction,
                     max_procs |-> file.max_procs,
                     generate_plots |-> file.generate_plots])

\* load_config on the file it designates: the path given, or the default
\* config.yaml of the working directory or of the project root
load_config(file) ==
    IF file.kind = "missing" THEN LoadRaise("FileNotFoundError")
    ELSE IF file.kind = "malformed" THEN LoadRaise("YAMLError")
    ELSE IF file.kind = "empty" THEN LoadReturn(EmptyMapping)
    ELSE LoadReturn([kind |-> file.kind, fraction |-> file.fraction,
                     max_procs |-> file.max_procs,
                     generate_plots |-> file.generate_plots])

\* config.get(key, default)
ConfigGet(config, key, default) ==
    IF config[key] = Absent THEN default ELSE config[key]

(***************************************************************************)
(* cli.py: get_config_values.                                              *)
(***************************************************************************)
Resolved(fr, mp, gp) ==
    [kind |-> "return", status |-> 0, exc |-> "none",
     fraction |-> fr, max_procs |-> mp, generate_plots |-> gp]

\* sys.exit(status), parser.error (status 2)
SysExit(st) ==
    [kind |-> "exit", status |-> st, exc |-> "SystemExit",
     fraction |-> PyNone, max_procs |-> PyNone, generate_plots |-> PyNone]

Propagate(e) ==
    [kind |-> "raise", status |-> 0, exc |-> e,
     fraction |-> PyNone, max_procs |-> PyNone, generate_plots |-> PyNone]

\* the configuration file's value wins over the flag
ResolveValuesConfigFirst(args, config) ==
    IF config.kind # "dict" THEN Propagate("AttributeError")
    ELSE IF ConfigGet(config, "fraction", args.fraction) = PyNone THEN SysExit(2)
    ELSE Resolved(
           ConfigGet(config, "fraction", args.fraction),
           IF ConfigGet(config, "max_procs", args.max_procs) = PyNone
           THEN PyInt(DefaultMaxProcs)
           ELSE ConfigGet(config, "max_procs", args.max_procs),
           IF args.no_plots THEN PyBool(FALSE)
           ELSE ConfigGet(config, "generate_plots", PyBool(TRUE)))

\* the three values, once the configuration is loaded
ResolveValues(args, config) ==
    IF args.fraction = PyNone /\ config.kind # "dict" THEN Propagate("AttributeError")
    ELSE IF args.fraction = PyNone /\ ConfigGet(config, "fraction", PyNone) = PyNone
    THEN SysExit(2)
    ELSE IF args.max_procs = PyNone /\ config.kind # "dict"
    THEN Propagate("AttributeError")
    ELSE IF ~args.no_plots /\ config.kind # "dict" THEN Propagate("AttributeError")
    ELSE Resolved(
           IF args.fraction # PyNone THEN args.fraction
           ELSE ConfigGet(config, "fraction", PyNone),
           IF args.max_procs # PyNone THEN args.max_procs
           ELSE ConfigGet(config, "max_procs", PyInt(DefaultMaxProcs)),
           IF args.no_plots THEN PyBool(FALSE)
           ELSE ConfigGet(config, "generate_plots", PyBool(TRUE)))

\* reports an unreadable --config file through parser.error (status 2)
get_config_values_usage_error(args, file) ==
    LET loaded == load_config(file)
    IN  IF args.config
        THEN IF loaded.kind = "raise" THEN SysExit(2)
             ELSE ResolveValues(args, loaded.config)
        ELSE IF loaded.kind = "raise"
             THEN IF loaded.exc = "FileNotFoundError"
                  THEN ResolveValues(args, EmptyMapping)
                  ELSE Propagate(loaded.exc)
             ELSE ResolveValues(args, loaded.config)

get_config_values(args, file) ==
    LET loaded == load_config(file)
    IN  IF args.config
        THEN IF loaded.kind = "raise" THEN SysExit(1)
             ELSE ResolveValues(args, loaded.config)
        ELSE IF loaded.kind = "raise"
             THEN IF loaded.exc = "FileNotFoundError"
                  THEN ResolveValues(args, EmptyMapping)
                  ELSE Propagate(loaded.exc)
             ELSE ResolveValues(args, loaded.config)

(***************************************************************************)
(* cli.py: main, from the parsed arguments on.                             *)
(***************************************************************************)
VARIABLES
    args,            \* the parsed command line
    file,            \* the configuration file the run designates
    cli_pc,          \* position in main
    fraction,        \* main's locals
    max_procs,
    generate_plots,
    exit_status,     \* the process's exit status, -1 while running
    exit_cause,      \* what ended the run
    exit_at,         \* the position at which the run ended
    out              \* what the run has printed and written, in order

clivars == <<args, file, cli_pc, fraction, max_procs, generate_plots,
             exit_status, exit_cause, exit_at, out>>

vars == <<libvars, clivars>>

\* no command-line run: the library is called directly
CliOff ==
    /\ args = [fraction |-> PyNone, max_procs |-> PyNone, config |-> FALSE,
               no_plots |-> FALSE]
    /\ file = [kind |-> "missing", fraction |-> Absent, max_procs |-> Absent,
               generate_plots |-> Absent]
    /\ cli_pc = "off"
    /\ fraction = PyNone /\ max_procs = PyNone /\ generate_plots = PyNone
    /\ exit_status = -1 /\ exit_cause = "none" /\ exit_at = "none"
    /\ out = <<>>

\* -f takes a float, -p an int
FlagFractions == {PyNone, PyFloat(Dec(1, 20)), PyFloat(FOne), PyFloat(Dec(3, 2))}

FlagMaxProcs == {PyNone, PyInt(3), PyInt(0)}

FileFractions == {Absent, PyFloat(Dec(1, 10)), PyInt(1), PyStr}

FileMaxProcs ==
    {Absent, PyInt(2), PyFloat(FromInt(2)), PyFloat(Dec(5, 2)), PyInt(0)}

FileGeneratePlots == {Absent, PyBool(TRUE), PyBool(FALSE)}

Files ==
    {[kind |-> k, fraction |-> Absent, max_procs |-> Absent,
      generate_plots |-> Absent] : k \in {"missing", "malformed", "empty", "list"}}
    \cup {[kind |-> "dict", fraction |-> fr, max_procs |-> mp, generate_plots |-> gp] :
            fr \in FileFractions, mp \in FileMaxProcs, gp \in FileGeneratePlots}

CliInit ==
    /\ args \in [fraction : FlagFractions, max_procs : FlagMaxProcs,
                 config : BOOLEAN, no_plots : BOOLEAN]
    /\ file \in Files
    /\ cli_pc = "get_config_values"
    /\ fraction = PyNone /\ max_procs = PyNone /\ generate_plots = PyNone
    /\ exit_status = -1 /\ exit_cause = "none" /\ exit_at = "none"
    /\ out = <<>>
    /\ call = "none" /\ f = PyNone /\ p = PyNone /\ pc = "idle"
    /\ ret = NoOutcome
    /\ processors = <<>> /\ speedups = <<>>
    /\ efficiencies = <<>> /\ time_ratios = <<>>
    /\ results = NoResults

\* the process ends with status st
ExitWith(st, cause) ==
    /\ exit_status' = st
    /\ exit_cause' = cause
    /\ exit_at' = cli_pc
    /\ cli_pc' = "exited"

\* except ValueError / except Exception: print the error, sys.exit(1)
Handle(e) == ExitWith(1, e)

running == <<exit_status, exit_cause, exit_at>>

\* fraction, max_procs, generate_plots = get_config_values(args)
GetConfigValues ==
    /\ cli_pc = "get_config_values"
    /\ LET r == get_config_values(args, file)
       IN  IF r.kind = "return"
           THEN /\ fraction' = r.fraction
                /\ max_procs' = r.max_procs
                /\ generate_plots' = r.generate_plots
                /\ cli_pc' = "validate_fraction"
                /\ UNCHANGED running
           ELSE /\ IF r.kind = "exit" THEN ExitWith(r.status, r.exc)
                   ELSE Handle(r.exc)
                /\ UNCHANGED <<fraction, max_procs, generate_plots>>
    /\ UNCHANGED <<args, file, out, libvars>>

ValidateFraction ==
    /\ cli_pc = "validate_fraction"
    /\ LET r == validate_fraction(fraction)
       IN  IF r.kind = "raise" THEN Handle(r.exc)
           ELSE cli_pc' = "validate_processors" /\ UNCHANGED running
    /\ UNCHANGED <<args, file, fraction, max_procs, generate_plots, out, libvars>>

ValidateProcessors ==
    /\ cli_pc = "validate_processors"
    /\ LET r == validate_processors(max_procs)
       IN  IF r.kind = "raise" THEN Handle(r.exc)
           ELSE cli_pc' = "banner" /\ UNCHANGED running
    /\ UNCHANGED <<args, file, fraction, max_procs, generate_plots, out, libvars>>

\* the banner, then the call simulate_scaling(fraction, max_procs)
CallSimulate ==
    /\ cli_pc = "banner"
    /\ out' = Append(out, "banner")
    /\ call' = "simulate_scaling" /\ f' = fraction /\ p' = max_procs
    /\ pc' = "start"
    /\ cli_pc' = "simulate_scaling"
    /\ UNCHANGED <<args, file, fraction, max_procs, generate_plots, running,
                   ret, noarrays>>

\* simulate_scaling runs
Simulate ==
    /\ cli_pc = "simulate_scaling"
    /\ SimStep
    /\ UNCHANGED clivars

\* simulate_scaling has returned or raised
SimulateDone ==
    /\ cli_pc = "simulate_scaling" /\ pc \in {"returned", "raised"}
    /\ IF pc = "raised" THEN Handle(ret.exc)
       ELSE cli_pc' = "format_table" /\ UNCHANGED running
    /\ UNCHANGED <<args, file, fraction, max_procs, generate_plots, out, libvars>>

\* print(format_table(simulation_results))
PrintTable ==
    /\ cli_pc = "format_table"
    /\ out' = Append(out, "table")
    /\ cli_pc' = "plots"
    /\ UNCHANGED <<args, file, fraction, max_procs, generate_plots, running, libvars>>

PlotFiles == <<"speedup.png", "efficiency.png", "execution_time.png">>

\* forgets the test of generate_plots: the files are always written
PlotsUnconditional ==
    /\ cli_pc = "plots"
    /\ out' = out \o PlotFiles
    /\ cli_pc' = "complete"
    /\ UNCHANGED <<args, file, fraction, max_procs, generate_plots, running, libvars>>

\* plot_all writes the three files in order, or the plots are skipped
Plots ==
    /\ cli_pc = "plots"
    /\ out' = IF Truthy(generate_plots) THEN out \o PlotFiles
              ELSE Append(out, "skipped")
    /\ cli_pc' = "complete"
    /\ UNCHANGED <<args, file, fraction, max_procs, generate_plots, running, libvars>>

\* the output directory or a file cannot be written: an OSError after k files
PlotsFail ==
    /\ cli_pc = "plots" /\ Truthy(generate_plots)
    /\ \E k \in 0..2 : out' = out \o SubSeq(PlotFiles, 1, k)
    /\ Handle("OSError")
    /\ UNCHANGED <<args, file, fraction, max_procs, generate_plots, libvars>>

\* "Analysis complete!", main returns
Complete ==
    /\ cli_pc = "complete"
    /\ out' = Append(out, "complete")
    /\ ExitWith(0, "return")
    /\ UNCHANGED <<args, file, fraction, max_procs, generate_plots, libvars>>

\* Ctrl-C anywhere in main's try block; inside plot_all, after k files
Interrupt ==
    /\ cli_pc \notin {"off", "exited"}
    /\ IF cli_pc = "plots" /\ Truthy(generate_plots)
       THEN \E k \in 0..2 : out' = out \o SubSeq(PlotFiles, 1, k)
       ELSE out' = out
    /\ ExitWith(130, "KeyboardInterrupt")
    /\ UNCHANGED <<args, file, fraction, max_procs, generate_plots, libvars>>

(***************************************************************************)
(* The library called directly.                                            *)
(***************************************************************************)
Init == LibInit /\ CliOff

Next ==
    \/ CalcSpeedup /\ UNCHANGED clivars
    \/ CalcEfficiency /\ UNCHANGED clivars
    \/ CalcExecutionTimeRatio /\ UNCHANGED clivars
    \/ SimValidate /\ UNCHANGED clivars
    \/ SimArange /\ UNCHANGED clivars
    \/ SimSpeedups /\ UNCHANGED clivars
    \/ SimEfficiencies /\ UNCHANGED clivars
    \/ SimTimeRatios /\ UNCHANGED clivars
    \/ SimReturn /\ UNCHANGED clivars

Spec == Init /\ [][Next]_vars

(***************************************************************************)
(* A command-line run.                                                     *)
(***************************************************************************)
CliNext ==
    \/ GetConfigValues
    \/ ValidateFraction
    \/ ValidateProcessors
    \/ CallSimulate
    \/ Simulate
    \/ SimulateDone
    \/ PrintTable
    \/ Plots
    \/ PlotsFail
    \/ Complete
    \/ Interrupt

CliSpec == CliInit /\ [][CliNext]_vars

\* the steps of main's own statements, without the user's interrupt
CliProgress ==
    \/ GetConfigValues
    \/ ValidateFraction
    \/ ValidateProcessors
    \/ CallSimulate
    \/ SimulateDone
    \/ PrintTable
    \/ Plots
    \/ Complete

(***************************************************************************)
(* Vocabulary of the properties.                                           *)
(***************************************************************************)
Done == pc \in {"returned", "raised"}

\* the inputs the specification calls invalid: f outside [0,1] or p < 1
InvalidInput == f \in InvalidFractions \/ p.n < 1

IsZeroFraction == f \in {PyFloat(FZero), PyInt(0)}

IsOneFraction == f \in {PyFloat(FOne), PyInt(1)}

\* x * 2^-k, exact
Scaled(x, k) == IF FIsZero(x) THEN x ELSE [x EXCEPT !.e = x.e - k]

\* |x - y| <= y * 2^-k, for x, y >= 0
RelClose(x, y, k) ==
    IF FLe(y, x) THEN FLe(FSub(x, y), Scaled(y, k))
    ELSE FLe(FSub(y, x), Scaled(y, k))

\* x <= y * (1 + 2^-k), for x, y >= 0
LeUpTo(x, y, k) == FLe(x, y) \/ FLe(FSub(x, y), Scaled(y, k))

\* a sequence of floats is strictly increasing / non-decreasing
StrictlyIncreasing(sq) == \A i \in 1..(Len(sq) - 1) : FLt(sq[i], sq[i + 1])

NonDecreasing(sq) == \A i \in 1..(Len(sq) - 1) : FLe(sq[i], sq[i + 1])

(***************************************************************************)
(* C1: Speedup(f, p) fails with ValueError and returns no value whenever   *)
(* f is outside [0,1] or p < 1, and succeeds for every f in [0,1] with     *)
(* p >= 1; Efficiency and ExecutionTimeRatio fail on exactly the same      *)
(* inputs.                                                                 *)
(***************************************************************************)
C1_ScalarValidation ==
    (call \in ScalarCalls /\ Done) =>
        IF InvalidInput
        THEN pc = "raised" /\ ret = Raise("ValueError")
        ELSE pc = "returned" /\ ret.kind = "return"

C1_Witness ==
    /\ call = "calculate_efficiency" /\ pc = "raised"
    /\ f = PyFloat(Dec(1, 2)) /\ p = PyInt(0)

(***************************************************************************)
(* C2: SimulateScaling(f, max_procs) fails with ValueError whenever f is   *)
(* outside [0,1] or max_procs < 1, and atomically: the check precedes the  *)
(* building of any sequence, so no part of a result exists for an invalid  *)
(* input.                                                                  *)
(***************************************************************************)
C2_BulkAtomicFailure ==
    (call = "simulate_scaling" /\ InvalidInput) =>
        /\ pc \in {"start", "raised"}
        /\ pc = "raised" => ret = Raise("ValueError")
        /\ processors = <<>> /\ speedups = <<>>
        /\ efficiencies = <<>> /\ time_ratios = <<>>
        /\ results = NoResults

C2_Witness ==
    /\ call = "simulate_scaling" /\ pc = "raised"
    /\ f = PyFloat(Dec(1, 2)) /\ p = PyInt(0)

(***************************************************************************)
(* C3: Speedup is exactly 1.0 on both degenerate edges: Speedup(f, 1) for  *)
(* every f in [0,1], and Speedup(1, p) for every p >= 1.                   *)
(***************************************************************************)
C3_DegenerateEdges ==
    (/\ call = "calculate_speedup" /\ Done /\ ~InvalidInput
     /\ (p.n = 1 \/ IsOneFraction)) => ret = Return(FOne)

C3_Witness ==
    /\ call = "calculate_speedup" /\ pc = "returned"
    /\ f = PyFloat(Dec(3, 10)) /\ p = PyInt(1)

(***************************************************************************)
(* C4 as stated: for f = 0 and every p >= 1, Speedup(0, p) equals p and    *)
(* Efficiency(0, p) equals 1.0.                                            *)
(***************************************************************************)
C4_ExactlyP ==
    (IsZeroFraction /\ p.n >= 1 /\ Done) =>
        /\ call = "calculate_speedup" => ret = Return(FromInt(p.n))
        /\ call = "calculate_efficiency" => ret = Return(FOne)

(***************************************************************************)
(* C4 amended: for f = 0 and every p >= 1, Speedup(0, p) equals p and      *)
(* Efficiency(0, p) equals 1.0 to within a relative error of 2^-52 (the    *)
(* two roundings of 1 / (1 / p)); not exactly, first at p = 49.            *)
(***************************************************************************)
C4_WithinRounding ==
    (IsZeroFraction /\ p.n >= 1 /\ Done) =>
        /\ call = "calculate_speedup" =>
              ret.kind = "return" /\ RelClose(ret.val, FromInt(p.n), Prec - 1)
        /\ call = "calculate_efficiency" =>
              ret.kind = "return" /\ RelClose(ret.val, FOne, Prec - 1)

C4_Witness ==
    /\ call = "calculate_efficiency" /\ pc = "returned"
    /\ f = PyFloat(FZero) /\ p = PyInt(49)
    /\ ret.val = AboveOne

(***************************************************************************)
(* C5 as stated: for every f with 0 <= f < 1, Speedup(f, p + 1) >          *)
(* Speedup(f, p) for all p >= 1, and in SimulateScaling(f, n) each speedup *)
(* is strictly greater than the one before it.                             *)
(***************************************************************************)
C5_StrictlyIncreasing ==
    (~InvalidInput /\ ~IsOneFraction /\ Done) =>
        /\ call = "calculate_speedup" =>
              FLt(ret.val, calculate_speedup(f, PyInt(p.n + 1)).val)
        /\ call = "simulate_scaling" => StrictlyIncreasing(results.speedups)

(***************************************************************************)
(* C5 amended: for every f in [0,1], Speedup(f, p + 1) >= Speedup(f, p)    *)
(* for all p >= 1, and in SimulateScaling(f, n) each speedup is at least   *)
(* the one before it; rounding can make neighbours equal.                  *)
(***************************************************************************)
C5_NonDecreasing ==
    (~InvalidInput /\ Done) =>
        /\ call = "calculate_speedup" =>
              /\ ret.kind = "return"
              /\ FLe(ret.val, calculate_speedup(f, PyInt(p.n + 1)).val)
        /\ call = "simulate_scaling" =>
              /\ Len(results.speedups) = p.n
              /\ NonDecreasing(results.speedups)

C5_Witness ==
    /\ call = "calculate_speedup" /\ pc = "returned"
    /\ f = PyFloat(BelowOne) /\ p = PyInt(1)
    /\ ret.val = calculate_speedup(f, PyInt(2)).val

(***************************************************************************)
(* C6 as stated: for every f in [0,1] and p >= 1, Efficiency(f, p + 1) <=  *)
(* Efficiency(f, p) and ExecutionTimeRatio(f, p + 1) <=                    *)
(* ExecutionTimeRatio(f, p).                                               *)
(***************************************************************************)
C6_NonIncreasing ==
    (~InvalidInput /\ Done) =>
        /\ call = "calculate_efficiency" =>
              FLe(calculate_efficiency(f, PyInt(p.n + 1)).val, ret.val)
        /\ call = "calculate_execution_time_ratio" =>
              FLe(calculate_execution_time_ratio(f, PyInt(p.n + 1)).val, ret.val)

(***************************************************************************)
(* C6 amended: ExecutionTimeRatio(f, p + 1) <= ExecutionTimeRatio(f, p)    *)
(* for every f in [0,1] and p >= 1; Efficiency is non-increasing up to     *)
(* rounding only: Efficiency(f, p + 1) <= Efficiency(f, p) * (1 + 2^-49).  *)
(***************************************************************************)
C6_NonIncreasingUpToRounding ==
    (~InvalidInput /\ Done) =>
        /\ call = "calculate_efficiency" =>
              /\ ret.kind = "return"
              /\ LeUpTo(calculate_efficiency(f, PyInt(p.n + 1)).val, ret.val,
                        Prec - 4)
        /\ call = "calculate_execution_time_ratio" =>
              /\ ret.kind = "return"
              /\ FLe(calculate_execution_time_ratio(f, PyInt(p.n + 1)).val,
                     ret.val)

C6_Witness ==
    /\ call = "calculate_efficiency" /\ pc = "returned"
    /\ f = PyFloat(FZero) /\ p = PyInt(48)
    /\ FLt(ret.val, calculate_efficiency(f, PyInt(49)).val)

(***************************************************************************)
(* C7: for every valid f and n >= 1, SimulateScaling(f, n) returns four    *)
(* sequences of length exactly n with processors[i] = i + 1 (0-based), and *)
(* at every index the speedup, efficiency and time ratio equal the scalar  *)
(* operations' results for that processor count.                           *)
(***************************************************************************)
C7_BulkMatchesScalar ==
    (call = "simulate_scaling" /\ ~InvalidInput /\ Done) =>
        /\ pc = "returned"
        /\ Len(results.processors) = p.n /\ Len(results.speedups) = p.n
        /\ Len(results.efficiencies) = p.n /\ Len(results.time_ratios) = p.n
        /\ \A i \in 1..p.n :
              /\ results.processors[i] = i
              /\ Return(results.speedups[i]) = calculate_speedup(f, PyInt(i))
              /\ Return(results.efficiencies[i]) = calculate_efficiency(f, PyInt(i))
              /\ Return(results.time_ratios[i]) =
                     calculate_execution_time_ratio(f, PyInt(i))

C7_Witness ==
    /\ call = "simulate_scaling" /\ pc = "returned"
    /\ f = PyFloat(Dec(1, 5)) /\ p = PyInt(5)
    /\ Len(results.speedups) = 5

(***************************************************************************)
(* C8 as stated: SimulateScaling(0.05, 100) ends with a speedup that       *)
(* rounds to 16.8421 (four places) and an efficiency that rounds to        *)
(* 0.168421 (six places); Speedup(0.5, 2) rounds to 1.333333 and           *)
(* Speedup(0.1, 10) to 5.263158.                                           *)
(***************************************************************************)
IsBulkScenario ==
    /\ call = "simulate_scaling" /\ pc = "returned"
    /\ f = PyFloat(Dec(1, 20)) /\ p = PyInt(DefaultMaxProcs)

IsScalarScenario(num, den, procs) ==
    /\ call = "calculate_speedup" /\ pc = "returned"
    /\ f = PyFloat(Dec(num, den)) /\ p = PyInt(procs)

C8_ScenarioAsStated ==
    /\ IsBulkScenario =>
          /\ RoundDec(results.speedups[DefaultMaxProcs], 4) = 168421
          /\ RoundDec(results.efficiencies[DefaultMaxProcs], 6) = 168421
    /\ IsScalarScenario(1, 2, 2) => RoundDec(ret.val, 6) = 1333333
    /\ IsScalarScenario(1, 10, 10) => RoundDec(ret.val, 6) = 5263158

(***************************************************************************)
(* C8 amended: SimulateScaling(0.05, 100) ends with a speedup that rounds  *)
(* to 16.8067 (four places) and an efficiency that rounds to 0.168067 (six *)
(* places); Speedup(0.5, 2) rounds to 1.333333 and Speedup(0.1, 10) to     *)
(* 5.263158.                                                               *)
(***************************************************************************)
C8_Scenario ==
    /\ (call = "simulate_scaling" /\ Done /\ f = PyFloat(Dec(1, 20))
        /\ p = PyInt(DefaultMaxProcs)) =>
          /\ pc = "returned" /\ Len(results.speedups) = DefaultMaxProcs
          /\ RoundDec(results.speedups[DefaultMaxProcs], 4) = 168067
          /\ RoundDec(results.efficiencies[DefaultMaxProcs], 6) = 168067
    /\ (call = "calculate_speedup" /\ Done /\ f = PyFloat(Dec(1, 2))
        /\ p = PyInt(2)) =>
          ret.kind = "return" /\ RoundDec(ret.val, 6) = 1333333
    /\ (call = "calculate_speedup" /\ Done /\ f = PyFloat(Dec(1, 10))
        /\ p = PyInt(10)) =>
          ret.kind = "return" /\ RoundDec(ret.val, 6) = 5263158

C8_Witness == IsBulkScenario /\ Len(results.efficiencies) = DefaultMaxProcs

(***************************************************************************)
(* Vocabulary of the command-line properties.                              *)
(***************************************************************************)
\* the configuration file is a mapping that has the key
KeyPresent(key) == file.kind = "dict" /\ file[key] # Absent

\* get_config_values has returned its three values
ValuesResolved ==
    cli_pc \notin {"off", "get_config_values"} /\ exit_at # "get_config_values"

Interrupted == exit_cause = "KeyboardInterrupt"

\* the configuration file cannot be loaded: a named file that is missing or
\* unparsable, or a default config.yaml that exists and is unparsable
LoadFails ==
    \/ args.config /\ file.kind \in {"missing", "malformed"}
    \/ ~args.config /\ file.kind = "malformed"

\* neither the flag nor the loaded configuration gives a fraction
FractionMissing ==
    /\ ~LoadFails /\ file.kind # "list"
    /\ args.fraction = PyNone /\ ~KeyPresent("fraction")

\* the resolved values the specification calls invalid
BadFraction == fraction \in {PyFloat(Dec(3, 2)), PyStr}

BadMaxProcs == max_procs \in {PyInt(0), PyFloat(Dec(5, 2))}

(***************************************************************************)
(* C9: each setting is resolved flag > config file > built-in default:     *)
(* fraction and max_procs are the flag's value whenever the flag is given, *)
(* else the config file's value when it has the key, else the default      *)
(* (max_procs 100; a fraction given nowhere is an error); generate_plots   *)
(* is false whenever --no-plots is given, else the config's value, else    *)
(* true.                                                                   *)
(***************************************************************************)
C9_Precedence ==
    /\ ValuesResolved =>
          /\ fraction = IF args.fraction # PyNone THEN args.fraction
                        ELSE file.fraction
          /\ args.fraction = PyNone => KeyPresent("fraction")
          /\ max_procs = IF args.max_procs # PyNone THEN args.max_procs
                         ELSE IF KeyPresent("max_procs") THEN file.max_procs
                         ELSE PyInt(100)
          /\ generate_plots = IF args.no_plots THEN PyBool(FALSE)
                              ELSE IF KeyPresent("generate_plots")
                              THEN file.generate_plots
                              ELSE PyBool(TRUE)
    /\ (args.fraction = PyNone /\ ~KeyPresent("fraction")
        /\ cli_pc \notin {"off", "get_config_values"}) =>
          cli_pc = "exited" /\ exit_at = "get_config_values" /\ exit_status # 0

C9_Witness ==
    /\ cli_pc = "validate_fraction"
    /\ args.fraction = PyFloat(Dec(1, 20)) /\ file.kind = "dict"
    /\ file.fraction = PyFloat(Dec(1, 10)) /\ fraction = PyFloat(Dec(1, 20))
    /\ args.max_procs = PyNone /\ file.max_procs = PyInt(2) /\ max_procs = PyInt(2)
    /\ ~args.no_plots /\ file.generate_plots = PyBool(FALSE)
    /\ generate_plots = PyBool(FALSE)

(***************************************************************************)
(* C10 as stated: once the arguments are parsed, every run ends with exit  *)
(* status 0, 1 or 130 and no other; a missing fraction is one of the       *)
(* validation failures that end it with 1.                                 *)
(***************************************************************************)
C10_StatusZeroOneOr130 ==
    cli_pc = "exited" =>
        /\ exit_status \in {0, 1, 130}
        /\ (FractionMissing /\ ~Interrupted) => exit_status = 1

(***************************************************************************)
(* C10 amended: once the arguments are parsed, every run ends with exactly *)
(* one of the exit statuses 0, 1, 2 or 130: 2 exactly when neither the     *)
(* flag nor the configuration gives a fraction (parser.error, which main's *)
(* handlers do not catch); 1 whenever the fraction is outside [0,1] or no  *)
(* number, max_procs is < 1 or no integer, or the configuration cannot be  *)
(* loaded; 130 exactly on user interrupt; 0 only when the analysis ran to  *)
(* completion.  Until it has exited, the run is inside simulate_scaling or  *)
(* main can take its next step.                                            *)
(***************************************************************************)
C10_ExitStatuses ==
    /\ cli_pc = "exited" =>
          /\ exit_status \in {0, 1, 2, 130}
          /\ exit_status = 130 <=> Interrupted
          /\ exit_status = 2 <=> (FractionMissing /\ ~Interrupted)
          /\ (LoadFails /\ ~Interrupted) =>
                exit_status = 1 /\ exit_at = "get_config_values"
          /\ (ValuesResolved /\ BadFraction /\ ~Interrupted) =>
                exit_status = 1 /\ exit_at = "validate_fraction"
          /\ (ValuesResolved /\ ~BadFraction /\ BadMaxProcs /\ ~Interrupted) =>
                exit_status = 1 /\ exit_at = "validate_processors"
          /\ exit_status = 0 =>
                /\ exit_at = "complete" /\ pc = "returned"
                /\ out[1] = "banner" /\ out[2] = "table"
                /\ out[Len(out)] = "complete"
    /\ cli_pc # "exited" =>
          /\ exit_status = -1
          /\ IF cli_pc = "simulate_scaling" /\ ~Done
             THEN pc \in {"start", "arange", "speedups", "efficiencies",
                          "time_ratios", "return"}
             ELSE ENABLED CliProgress

C10_Witness ==
    /\ cli_pc = "exited" /\ exit_status = 2
    /\ args.config /\ file.kind = "dict" /\ file.max_procs = PyInt(2)

(***************************************************************************)
(* Vocabulary of the step order of a run.                                  *)
(***************************************************************************)
\* the statement of main the run is at, or ended at
Position == IF cli_pc = "exited" THEN exit_at ELSE cli_pc

\* main's statements, numbered in program order
StepRank(pos) ==
    CASE pos = "get_config_values" -> 1
      [] pos = "validate_fraction" -> 2
      [] pos = "validate_processors" -> 3
      [] pos = "banner" -> 4
      [] pos = "simulate_scaling" -> 5
      [] pos = "format_table" -> 6
      [] pos = "plots" -> 7
      [] pos = "complete" -> 8
      [] OTHER -> 0

\* sq is an initial part of full
IsPrefix(sq, full) == Len(sq) <= Len(full) /\ sq = SubSeq(full, 1, Len(sq))

\* what a run that meets no error prints and writes
FullOutput ==
    <<"banner", "table">>
    \o (IF Truthy(generate_plots) THEN PlotFiles ELSE <<"skipped">>)
    \o <<"complete">>

Occurs(ev) == \E i \in 1..Len(out) : out[i] = ev

SimulationStarted == call = "simulate_scaling"

(***************************************************************************)
(* C11: in every command-line run the steps happen in the order            *)
(* resolve-config, validate fraction, validate max_procs, simulate, print  *)
(* table, render plots.  The simulation, the table and the plot files come *)
(* only after both validations have passed; a run whose fraction or        *)
(* max_procs is invalid ends in the error exit (status 1) at its           *)
(* validation without having started any of them; the plot files           *)
(* (speedup.png, efficiency.png, execution_time.png, in that order) come   *)
(* only after the table and only when generate_plots is true.              *)
(***************************************************************************)
C11_StepOrder ==
    cli_pc # "off" =>
        /\ StepRank(Position) >= 1
        /\ IsPrefix(out, FullOutput)
        /\ SimulationStarted <=> StepRank(Position) >= 5
        /\ results # NoResults => StepRank(Position) >= 5 /\ pc = "returned"
        /\ Occurs("banner") <=> StepRank(Position) >= 5
        /\ Occurs("table") <=> StepRank(Position) >= 7
        /\ Occurs("table") => results # NoResults
        /\ (\E i \in 1..3 : Occurs(PlotFiles[i])) =>
              /\ StepRank(Position) >= 7 /\ Truthy(generate_plots)
              /\ out[2] = "table" /\ out[3] = "speedup.png"
        /\ Occurs("complete") <=> (cli_pc = "exited" /\ exit_status = 0)
        /\ StepRank(Position) >= 4 => ValuesResolved /\ ~BadFraction /\ ~BadMaxProcs
        /\ (ValuesResolved /\ (BadFraction \/ BadMaxProcs)) =>
              /\ out = <<>> /\ ~SimulationStarted /\ results = NoResults
              /\ StepRank(Position) <= IF BadFraction THEN 2 ELSE 3
              /\ (cli_pc = "exited" /\ ~Interrupted) =>
                    /\ exit_status = 1 /\ exit_cause = "ValueError"
                    /\ exit_at = IF BadFraction THEN "validate_fraction"
                                 ELSE "validate_processors"

C11_Witness ==
    /\ cli_pc = "exited" /\ exit_status = 0
    /\ out = <<"banner", "table", "speedup.png", "efficiency.png",
               "execution_time.png", "complete">>

C11_InvalidWitness ==
    /\ cli_pc = "exited" /\ exit_at = "validate_processors"
    /\ max_procs = PyFloat(Dec(5, 2)) /\ out = <<>>

(***************************************************************************)
(* Vocabulary of the configuration-loading properties.                     *)
(***************************************************************************)
\* get_config_values is over: it returned, or the run ended in it
PastConfig == cli_pc \notin {"off", "get_config_values"}

\* --config names a file that does not exist or cannot be parsed
NamedFileUnloadable == args.config /\ file.kind \in {"missing", "malformed"}

\* no --config and no default config.yaml, or the file loaded is empty
NoConfiguration ==
    \/ ~args.config /\ file.kind = "missing"
    \/ file.kind = "empty"

\* the user interrupted the run while it was loading the configuration
ConfigInterrupted == Interrupted /\ exit_at = "get_config_values"

\* nothing of the validation or the simulation has happened
NothingRun ==
    /\ exit_at = "get_config_values"
    /\ fraction = PyNone /\ max_procs = PyNone /\ generate_plots = PyNone
    /\ call = "none" /\ pc = "idle" /\ results = NoResults /\ out = <<>>

(***************************************************************************)
(* C12: configuration-loading failures are handled apart from the core's   *)
(* ValueError.  When --config names a file that does not exist or cannot   *)
(* be parsed, the run ends with status 1 inside get_config_values          *)
(* (sys.exit, not a ValueError), before any validation or simulation.      *)
(* When no --config is given and no default config.yaml exists, that is no *)
(* error: the run goes on with an empty configuration, that is with the    *)
(* flags and the built-in defaults only (max_procs 100, plots unless       *)
(* --no-plots); an empty configuration file is treated the same way.       *)
(***************************************************************************)
C12_ConfigLoading ==
    /\ (NamedFileUnloadable /\ PastConfig) =>
          /\ cli_pc = "exited" /\ NothingRun
          /\ ~Interrupted => exit_status = 1 /\ exit_cause = "SystemExit"
    /\ (NoConfiguration /\ PastConfig /\ args.fraction # PyNone
        /\ ~ConfigInterrupted) =>
          /\ ValuesResolved
          /\ fraction = args.fraction
          /\ max_procs = IF args.max_procs # PyNone THEN args.max_procs
                         ELSE PyInt(DefaultMaxProcs)
          /\ generate_plots = PyBool(~args.no_plots)
    /\ (NoConfiguration /\ PastConfig /\ args.fraction = PyNone) =>
          /\ cli_pc = "exited" /\ NothingRun
          /\ ~Interrupted => exit_status = 2 /\ exit_cause = "SystemExit"

C12_Witness ==
    /\ cli_pc = "exited" /\ exit_status = 1 /\ exit_at = "get_config_values"
    /\ args.config /\ file.kind = "malformed"
    /\ args.fraction = PyFloat(Dec(1, 20))

C12_EmptyWitness ==
    /\ cli_pc = "exited" /\ exit_status = 0
    /\ args.config /\ file.kind = "empty" /\ max_procs = PyInt(DefaultMaxProcs)

C12_NoDefaultWitness ==
    /\ cli_pc = "validate_fraction"
    /\ ~args.config /\ file.kind = "missing" /\ args.max_procs = PyInt(3)

(***************************************************************************)
(* Vocabulary of the division properties.                                  *)
(***************************************************************************)
\* the general formula 1.0 / (f + (1 - f) / p), without the f == 1 branch
GeneralFormula(fv, pv) == PyDiv(FOne, Denominator(fv, pv))

\* the divisors of a scalar call that has returned: p, the denominator
\* (unless f == 1 returned early), and the speedup for the time ratio
ScalarDivisorsNonZero ==
    /\ ~FIsZero(ToFloat(p))
    /\ ~IsOne(f) => ~FIsZero(Denominator(f, p))
    /\ call = "calculate_execution_time_ratio" =>
          ~FIsZero(calculate_speedup(f, p).val)

\* the divisors of the array divisions simulate_scaling has done so far
BulkDivisorsNonZero ==
    /\ \A i \in 1..Len(processors) : processors[i] >= 1
    /\ (~IsOne(f) /\ speedups # <<>>) =>
          \A i \in 1..Len(processors) :
              ~FIsZero(Denominator(f, PyInt(processors[i])))
    /\ \A i \in 1..Len(speedups) : ~FIsZero(speedups[i])

(***************************************************************************)
(* C13: for every valid input (f in [0,1], p >= 1) no division in Speedup, *)
(* Efficiency, ExecutionTimeRatio or SimulateScaling has a zero divisor    *)
(* (no call ends in ZeroDivisionError, and every divisor is non-zero), and *)
(* the f = 1 short-circuit agrees with the general formula: 1 / (f + (1 -  *)
(* f) / p) evaluated at f = 1 is the 1.0 that the branch returns, in the   *)
(* scalar and in the bulk operation.                                       *)
(***************************************************************************)
C13_NoZeroDivisor ==
    ~InvalidInput =>
        /\ ret.exc # "ZeroDivisionError"
        /\ (call \in ScalarCalls /\ Done) =>
              /\ ret.kind = "return" /\ ScalarDivisorsNonZero
              /\ (call = "calculate_speedup" /\ IsOneFraction) =>
                    /\ ret = Return(FOne)
                    /\ GeneralFormula(f, p) = ret
        /\ call = "simulate_scaling" =>
              /\ BulkDivisorsNonZero
              /\ (IsOneFraction /\ pc = "returned") =>
                    /\ Len(results.speedups) = p.n
                    /\ \A i \in 1..p.n :
                          /\ results.speedups[i] = FOne
                          /\ GeneralFormula(f, PyInt(i)) =
                                 Return(results.speedups[i])

C13_Witness ==
    /\ call = "simulate_scaling" /\ pc = "returned"
    /\ f = PyFloat(FOne) /\ p = PyInt(MaxProcs)
    /\ Len(results.speedups) = MaxProcs

C13_ScalarWitness ==
    /\ call = "calculate_execution_time_ratio" /\ pc = "returned"
    /\ f = PyFloat(FZero) /\ p = PyInt(MaxP)

(***************************************************************************)
(* Vocabulary of the bounds.  fv is the fraction, k the processor count,   *)
(* s, e, t a speedup, an efficiency and a time ratio computed for them.    *)
(***************************************************************************)
\* 1 <= s <= k, and s <= 1 / f when f > 0
SpeedupInBounds(fv, k, s) ==
    /\ FLe(FOne, s) /\ FLe(s, FromInt(k))
    /\ ~FIsZero(ToFloat(fv)) => FLe(s, FDiv(FOne, ToFloat(fv)))

\* 0 < e <= 1
EfficiencyInBounds(e) == FLt(FZero, e) /\ FLe(e, FOne)

\* f <= t <= 1 and t == f + (1 - f) / k
TimeRatioInBounds(fv, k, t) ==
    /\ FLe(ToFloat(fv), t) /\ FLe(t, FOne)
    /\ t = Denominator(fv, PyInt(k))

\* the same, the upper bound k, the upper bound 1 of the efficiency, the
\* lower bound f and the equality each up to a relative error of 2^-52
SpeedupNearBounds(fv, k, s) ==
    /\ FLe(FOne, s) /\ LeUpTo(s, FromInt(k), Prec - 1)
    /\ ~FIsZero(ToFloat(fv)) => FLe(s, FDiv(FOne, ToFloat(fv)))

EfficiencyNearBounds(e) == FLt(FZero, e) /\ LeUpTo(e, FOne, Prec - 1)

TimeRatioNearBounds(fv, k, t) ==
    /\ LeUpTo(ToFloat(fv), t, Prec - 1) /\ FLe(t, FOne)
    /\ RelClose(t, Denominator(fv, PyInt(k)), Prec - 1)

(***************************************************************************)
(* C14 as stated: every element of every valid result stays within the     *)
(* Amdahl bounds: for all f in [0,1] and p >= 1, 1 <= Speedup(f, p) <= p,  *)
(* and Speedup(f, p) <= 1/f when f > 0; 0 < Efficiency(f, p) <= 1; and     *)
(* f <= ExecutionTimeRatio(f, p) <= 1, with ExecutionTimeRatio(f, p) ==    *)
(* f + (1 - f) / p.                                                        *)
(***************************************************************************)
C14_ExactBounds ==
    (~InvalidInput /\ pc = "returned") =>
        /\ call = "calculate_speedup" => SpeedupInBounds(f, p.n, ret.val)
        /\ call = "calculate_efficiency" => EfficiencyInBounds(ret.val)
        /\ call = "calculate_execution_time_ratio" =>
              TimeRatioInBounds(f, p.n, ret.val)
        /\ call = "simulate_scaling" =>
              \A i \in 1..Len(results.processors) :
                  /\ SpeedupInBounds(f, i, results.speedups[i])
                  /\ EfficiencyInBounds(results.efficiencies[i])
                  /\ TimeRatioInBounds(f, i, results.time_ratios[i])

(***************************************************************************)
(* C14 amended: for all f in [0,1] and p >= 1, every element of every      *)
(* valid result satisfies 1 <= Speedup(f, p) <= p * (1 + 2^-52), and       *)
(* Speedup(f, p) <= 1.0 / f when f > 0; 0 < Efficiency(f, p) <= 1 + 2^-52; *)
(* f <= ExecutionTimeRatio(f, p) * (1 + 2^-52) and ExecutionTimeRatio(f,   *)
(* p) <= 1, with ExecutionTimeRatio(f, p) equal to f + (1 - f) / p to      *)
(* within a relative error of 2^-52.  The bounds p, 1 (of the efficiency)  *)
(* and f, and the equality, hold up to rounding only.                      *)
(***************************************************************************)
C14_BoundsUpToRounding ==
    (~InvalidInput /\ Done) =>
        /\ pc = "returned"
        /\ call = "calculate_speedup" => SpeedupNearBounds(f, p.n, ret.val)
        /\ call = "calculate_efficiency" => EfficiencyNearBounds(ret.val)
        /\ call = "calculate_execution_time_ratio" =>
              TimeRatioNearBounds(f, p.n, ret.val)
        /\ call = "simulate_scaling" =>
              /\ Len(results.processors) = p.n /\ Len(results.speedups) = p.n
              /\ Len(results.efficiencies) = p.n
              /\ Len(results.time_ratios) = p.n
              /\ \A i \in 1..p.n :
                    /\ SpeedupNearBounds(f, i, results.speedups[i])
                    /\ EfficiencyNearBounds(results.efficiencies[i])
                    /\ TimeRatioNearBounds(f, i, results.time_ratios[i])

C14_Witness ==
    /\ call = "simulate_scaling" /\ pc = "returned"
    /\ f = PyFloat(BelowOne) /\ p = PyInt(MaxProcs)
    /\ FLt(results.time_ratios[3], BelowOne)

C14_ScalarWitness ==
    /\ call = "calculate_speedup" /\ pc = "returned"
    /\ f = PyFloat(Tiny) /\ p = PyInt(49)
    /\ FLt(FromInt(49), ret.val)

(***************************************************************************)
(* Vocabulary of the agreement of the validators and the core.             *)
(***************************************************************************)
\* both validators accept the resolved values
ValidatorsAccept ==
    /\ ValuesResolved
    /\ validate_fraction(fraction) = Ok
    /\ validate_processors(max_procs) = Ok

\* simulate_scaling's own checks reject the resolved values
CoreRejects ==
    /\ ValuesResolved
    /\ ~IsNumber(fraction) \/ ~InUnit(fraction) \/ BelowOneProc(max_procs)

\* max_procs as a count: 2.0 counts 2
NumProcs == IF max_procs.type = "float" THEN FCeil(max_procs.fl) ELSE max_procs.n

\* the run has called simulate_scaling and the call is over
SimulationOver == call = "simulate_scaling" /\ Done

(***************************************************************************)
(* C15: the validators of the command line and the core agree: every       *)
(* (fraction, max_procs) pair that passes validate_fraction and            *)
(* validate_processors (a whole-number float max_procs from the            *)
(* configuration file included, which validate_processors accepts without  *)
(* converting the caller's value) makes simulate_scaling complete and      *)
(* return a result of length max_procs, for every accepted fraction        *)
(* including f = 1; and every pair simulate_scaling would reject is        *)
(* already rejected by the validators.                                     *)
(***************************************************************************)
C15_ValidatorsAgreeWithCore ==
    /\ (ValidatorsAccept /\ SimulationOver) =>
          /\ pc = "returned" /\ ret.kind = "return"
          /\ Len(results.processors) = NumProcs
          /\ Len(results.speedups) = NumProcs
          /\ Len(results.efficiencies) = NumProcs
          /\ Len(results.time_ratios) = NumProcs
    /\ CoreRejects => ~ValidatorsAccept /\ ~SimulationStarted
=============================================================================
